---- MODULE Spec2Model ----
(***************************************************************************)
(* Model of the edalize flow configurators                                 *)
(*   Nextpnr.configure_main          (src/edalize/nextpnr.py)              *)
(*   Symbiflow.configure_main / configure_nextpnr / configure_vpr          *)
(*                                   (src/edalize/symbiflow.py)            *)
(* One behaviour is one configure call on one tool object.  The input      *)
(* files, the design name, the toplevel and Symbiflow's pnr option, which  *)
(* selects the flow, are fixed at construction; every other option is      *)
(* drawn when the code reads it with tool_options.get.  An input file is   *)
(* named after its position in the list, so names are distinct.            *)
(* Python's None is the value None below, a local that has not been        *)
(* assigned yet holds Unset.  A raised exception ends the call in          *)
(* pc = "failed" with the exception in error; logger.error only appends    *)
(* to log and the call goes on.                                            *)
(***************************************************************************)
EXTENDS Integers, Sequences, FiniteSets, TLC

VARIABLES
    flow,            \* "Nextpnr" or "Symbiflow": the class of the tool object
    pc,              \* position of the configure call
    name,            \* self.name
    toplevel,        \* self.toplevel
    files,           \* self.files / src_files, in supply order
    pnr,             \* tool_options["pnr"] (Symbiflow)
    idx,             \* index of the next file of the classification loop
    roles,           \* Nextpnr: cst_file, lpf_file, ..., netlist, unused_files
    edam_files,      \* Nextpnr: self.edam["files"]
    arch,            \* flow_config["arch"] (Nextpnr), tool_options["arch"] (Symbiflow)
    chipdb,          \* Nextpnr: option chipdb
    device,          \* Nextpnr: option device
    package,         \* option package
    part,            \* Symbiflow: option part
    vendor,          \* Symbiflow: option vendor
    fasm2bels,       \* Symbiflow: option fasm2bels, FALSE (its default) until read
    dbroot,          \* Symbiflow: option dbroot
    schema_dir,      \* Symbiflow: option schema_dir
    slots,           \* Symbiflow: the locals filled by the loop over src_files
    partname,        \* Symbiflow: local partname
    bitstream_device,\* Symbiflow: local bitstream_device
    targets,         \* local targets: the output of the stage added last
    commands,        \* EdaCommands.commands: the registered stages, in order
    cmd_header,      \* EdaCommands.header
    cmd_vars,        \* EdaCommands.variables
    default_target,  \* EdaCommands.default_target
    written,         \* TRUE once commands.write has been reached
    error,           \* the exception that ended the call, or NoError
    log              \* the messages given to logger.error, in order

vars == <<flow, pc, name, toplevel, files, pnr, idx, roles, edam_files, arch,
          chipdb, device, package, part, vendor, fasm2bels, dbroot, schema_dir,
          slots, partname, bitstream_device, targets, commands, cmd_header,
          cmd_vars, default_target, written, error, log>>

-----------------------------------------------------------------------------
(* Bounds of the model *)

\* longest list of input files given to Nextpnr
MaxFiles == 2
\* longest list of input files given to Symbiflow with pnr = nextpnr
MaxNextpnrSrcFiles == 3
\* longest list of input files given to Symbiflow with pnr = vpr or vtr
MaxVprSrcFiles == 2

-----------------------------------------------------------------------------
(* Values *)

None == "<None>"
Unset == "<unset>"

\* Python truthiness of an option value or of a file name
Truthy(x) == x # None /\ x # ""

\* "%s" % x
PyStr(x) == IF x = None THEN "None" ELSE x

\* sub in s, for Python strings
Contains(sub, s) ==
    \E i \in 1..(Len(s) - Len(sub) + 1) : SubSeq(s, i, i + Len(sub) - 1) = sub

\* s.split("-")[0]
SplitDashFirst(s) ==
    LET dashes == {i \in 1..Len(s) : SubSeq(s, i, i) = "-"}
    IN  IF dashes = {} THEN s
        ELSE LET first == CHOOSE i \in dashes : \A j \in dashes : i <= j
             IN  IF first = 1 THEN "" ELSE SubSeq(s, 1, first - 1)

\* " ".join(seq)
RECURSIVE JoinSpace(_)
JoinSpace(seq) ==
    IF seq = <<>> THEN ""
    ELSE IF Len(seq) = 1 THEN seq[1]
    ELSE seq[1] \o " " \o JoinSpace(Tail(seq))

\* the file at position i of an input list is named after its position
FileNames == <<"f1", "f2", "f3", "f4", "f5", "f6">>

\* all lists of at most n files whose types are drawn from types
FileLists(types, n) ==
    UNION {{[i \in 1..k |-> [name |-> FileNames[i], file_type |-> ft[i]]]
              : ft \in [1..k -> types]} : k \in 0..n}

NoError == [kind |-> "none", key |-> "", names |-> <<>>]

\* one registered stage
Stage(command, outs, deps) ==
    [command |-> command, targets |-> outs, depends |-> deps]

-----------------------------------------------------------------------------
(* EdaCommands (edalize.utils): the command-graph builder *)

\* EdaCommands.add(command, targets, depends)
CommandsAdd(cmds, command, outs, deps) == Append(cmds, Stage(command, outs, deps))

\* EdaCommands.set_default_target(target)
SetDefaultTarget(target) == target

-----------------------------------------------------------------------------
(* Nextpnr.configure_main *)

NextpnrArchs == {"ecp5", "mistral", "nexus", "gowin", "fpga_interchange",
                 "ice40", "unknown"}
NextpnrFileTypes == {"CST", "LPF", "PDC", "PCF", "XDC", "QSF", "jsonNetlist",
                     "fpgaInterchangeNetlist", "other"}
NextpnrChipdbs == {None, "", "chipdb.bin"}
NextpnrDevices == {None, "", "LFD2NX-40"}
NextpnrPackages == {None, "sg48"}

\* the locals of lines 28-35
EmptyRoles ==
    [cst_file |-> "", lpf_file |-> "", pcf_file |-> "", xdc_file |-> "",
     pdc_file |-> "", qsf_file |-> "", netlist |-> "", unused_files |-> <<>>]

\* the state of one loop iteration: the role locals and a raised exception
Raise(st, kind, key, names) ==
    [st EXCEPT !.error = [kind |-> kind, key |-> key, names |-> names]]

\* lines 47-54
ClassifyCST(st, f) ==
    IF f.file_type = "CST"
    THEN IF st.roles.cst_file # ""
         THEN Raise(st, "Duplicate", "CST", <<st.roles.cst_file, f.name>>)
         ELSE [st EXCEPT !.roles.cst_file = f.name]
    ELSE st

\* lines 55-62: the message is formatted with pcf_file
ClassifyLPF(st, f) ==
    IF f.file_type = "LPF"
    THEN IF st.roles.lpf_file # ""
         THEN Raise(st, "Duplicate", "LPF", <<st.roles.pcf_file, f.name>>)
         ELSE [st EXCEPT !.roles.lpf_file = f.name]
    ELSE st

\* lines 63-70
ClassifyPDC(st, f) ==
    IF f.file_type = "PDC"
    THEN IF st.roles.pdc_file # ""
         THEN Raise(st, "Duplicate", "PDC", <<st.roles.pdc_file, f.name>>)
         ELSE [st EXCEPT !.roles.pdc_file = f.name]
    ELSE st

\* lines 71-86: if PCF ... elif XDC
ClassifyPCFXDC(st, f) ==
    IF f.file_type = "PCF"
    THEN IF st.roles.pcf_file # ""
         THEN Raise(st, "Duplicate", "PCF", <<st.roles.pcf_file, f.name>>)
         ELSE [st EXCEPT !.roles.pcf_file = f.name]
    ELSE IF f.file_type = "XDC"
    THEN IF st.roles.xdc_file # ""
         THEN Raise(st, "Duplicate", "XDC", <<st.roles.xdc_file, f.name>>)
         ELSE [st EXCEPT !.roles.xdc_file = f.name]
    ELSE st

\* lines 87-124: if QSF ... elif jsonNetlist ... elif fpgaInterchangeNetlist
\* ... else unused_files.append(f)
ClassifyQSFNetlist(st, f, is_interchange) ==
    IF f.file_type = "QSF"
    THEN IF st.roles.qsf_file # ""
         THEN Raise(st, "Duplicate", "QSF", <<st.roles.qsf_file, f.name>>)
         ELSE [st EXCEPT !.roles.qsf_file = f.name]
    ELSE IF f.file_type = "jsonNetlist"
    THEN IF st.roles.netlist # ""
         THEN Raise(st, "Duplicate", "netlist", <<st.roles.netlist, f.name>>)
         ELSE IF is_interchange
         THEN Raise([st EXCEPT !.roles.netlist = f.name],
                    "FormatMismatch", "jsonNetlist", <<f.name>>)
         ELSE [st EXCEPT !.roles.netlist = f.name]
    ELSE IF f.file_type = "fpgaInterchangeNetlist"
    THEN IF st.roles.netlist # ""
         THEN Raise(st, "Duplicate", "netlist", <<st.roles.netlist, f.name>>)
         ELSE IF ~is_interchange
         THEN Raise(st, "FormatMismatch", "fpgaInterchangeNetlist", <<f.name>>)
         ELSE st
    ELSE [st EXCEPT !.roles.unused_files = Append(@, f)]

\* a statement of the loop body runs unless an earlier one raised
Then(st, next) == IF st.error = NoError THEN next ELSE st

\* lines 47-124: the body of the loop for one file
ClassifyFile(r, f, is_interchange) ==
    LET s0 == [roles |-> r, error |-> NoError]
        s1 == ClassifyCST(s0, f)
        s2 == Then(s1, ClassifyLPF(s1, f))
        s3 == Then(s2, ClassifyPDC(s2, f))
        s4 == Then(s3, ClassifyPCFXDC(s3, f))
    IN  Then(s4, ClassifyQSFNetlist(s4, f, is_interchange))

\* lines 135-173: the per-architecture row
ArchRow(a, nm, r, dev) ==
    IF a = "ecp5"
    THEN [error |-> NoError, arch_options |-> <<>>, targets |-> nm \o ".config",
          constraints |-> IF r.lpf_file # "" THEN <<"--lpf", r.lpf_file>> ELSE <<>>,
          output |-> <<"--textcfg", nm \o ".config">>]
    ELSE IF a \in {"mistral", "nexus", "gowin"} /\ ~Truthy(dev)
    THEN [error |-> [kind |-> "MissingOption", key |-> "device", names |-> <<a>>],
          arch_options |-> <<>>, targets |-> Unset, constraints |-> <<>>,
          output |-> <<>>]
    ELSE IF a = "mistral"
    THEN [error |-> NoError, arch_options |-> <<"--device", dev>>,
          targets |-> nm \o ".rbf",
          constraints |-> IF r.qsf_file # "" THEN <<"--qsf", r.qsf_file>> ELSE <<>>,
          output |-> <<"--rbf", nm \o ".rbf">>]
    ELSE IF a = "nexus"
    THEN [error |-> NoError, arch_options |-> <<"--device", dev>>,
          targets |-> nm \o ".fasm",
          constraints |-> IF r.pdc_file # "" THEN <<"--pdc", r.pdc_file>> ELSE <<>>,
          output |-> <<"--fasm", nm \o ".fasm">>]
    ELSE IF a = "gowin"
    THEN [error |-> NoError, arch_options |-> <<"--device", dev>>,
          targets |-> nm \o ".pack",
          constraints |-> IF r.cst_file # "" THEN <<"--cst", r.cst_file>> ELSE <<>>,
          output |-> <<"--write", nm \o ".pack">>]
    ELSE IF a = "fpga_interchange"
    THEN [error |-> NoError, arch_options |-> <<>>, targets |-> nm \o ".phys",
          constraints |-> <<"--xdc", r.xdc_file>>,
          output |-> <<"--phys", nm \o ".phys">>]
    ELSE [error |-> NoError, arch_options |-> <<>>, targets |-> nm \o ".asc",
          constraints |-> IF r.pcf_file # "" THEN <<"--pcf", r.pcf_file>> ELSE <<>>,
          output |-> <<"--asc", nm \o ".asc">>]

\* lines 175-185: the command of the primary stage (nextpnr_options is empty)
NextpnrCommand(a, row, depends, cdb, pkg) ==
    <<"nextpnr-" \o a, "-l", "next.log">> \o row.arch_options \o row.constraints
    \o (IF a = "fpga_interchange"
        THEN <<"--netlist", depends, "--chipdb", cdb>>
        ELSE <<"--json", depends>>)
    \o (IF pkg # None THEN <<"--package", pkg>> ELSE <<>>)
    \o row.output

\* lines 187-191: the CLI stage, then the GUI stage
NextpnrStages(command, tgt, depends) ==
    CommandsAdd(CommandsAdd(<<>>, command, <<tgt>>, <<depends>>),
                Append(command, "--gui"), <<"build-gui">>, <<depends>>)

\* line 194 changed to make the stage registered last the default target
NextpnrDefaultTargetLastStage(tgt) == SetDefaultTarget("build-gui")

\* line 194
NextpnrDefaultTarget(tgt) == SetDefaultTarget(tgt)

\* the variables only Symbiflow assigns
SymbiflowLocals == <<pnr, part, vendor, fasm2bels, dbroot, schema_dir, slots,
                     partname, bitstream_device, cmd_header, cmd_vars, log>>

\* lines 28-44
NpStart ==
    /\ flow = "Nextpnr" /\ pc = "start"
    /\ \E a \in NextpnrArchs, c \in NextpnrChipdbs, p \in NextpnrPackages :
         /\ arch' = a
         /\ chipdb' = c
         /\ roles' = EmptyRoles
         /\ IF a = "fpga_interchange" /\ c = None
            THEN /\ error' = [kind |-> "MissingOption", key |-> "chipdb",
                              names |-> <<a>>]
                 /\ pc' = "failed"
                 /\ package' = package
                 /\ idx' = idx
            ELSE /\ package' = p
                 /\ idx' = 1
                 /\ pc' = "np_loop"
                 /\ error' = error
    /\ UNCHANGED <<flow, name, toplevel, files, edam_files, device, targets,
                   commands, default_target, written>>
    /\ UNCHANGED SymbiflowLocals

\* lines 46-124: one iteration of the loop over self.files
NpClassify ==
    /\ flow = "Nextpnr" /\ pc = "np_loop" /\ idx <= Len(files)
    /\ LET st == ClassifyFile(roles, files[idx], arch = "fpga_interchange")
       IN  /\ roles' = st.roles
           /\ error' = st.error
           /\ IF st.error = NoError
              THEN idx' = idx + 1 /\ pc' = pc
              ELSE idx' = idx /\ pc' = "failed"
    /\ UNCHANGED <<flow, name, toplevel, files, edam_files, arch, chipdb,
                   device, package, targets, commands, default_target, written>>
    /\ UNCHANGED SymbiflowLocals

\* lines 126-194: after the loop, edam["files"], the architecture row and the
\* two stages
NpStages ==
    /\ flow = "Nextpnr" /\ pc = "np_loop" /\ idx > Len(files)
    /\ edam_files' = Append(roles.unused_files,
                            [name |-> name \o ".asc", file_type |-> "iceboxAscii"])
    /\ \E d \in (IF arch \in {"mistral", "nexus", "gowin"}
                 THEN NextpnrDevices ELSE {Unset}) :
         LET row == ArchRow(arch, name, roles, d)
             command == NextpnrCommand(arch, row, roles.netlist, chipdb, package)
         IN  /\ device' = d
             /\ error' = row.error
             /\ IF row.error = NoError
                THEN /\ targets' = row.targets
                     /\ commands' = NextpnrStages(command, row.targets, roles.netlist)
                     /\ default_target' = NextpnrDefaultTarget(row.targets)
                     /\ pc' = "np_write"
                ELSE /\ pc' = "failed"
                     /\ UNCHANGED <<targets, commands, default_target>>
    /\ UNCHANGED <<flow, name, toplevel, files, idx, roles, arch, chipdb,
                   package, written>>
    /\ UNCHANGED SymbiflowLocals

\* line 195: commands.write(Makefile)
NpWrite ==
    /\ flow = "Nextpnr" /\ pc = "np_write"
    /\ written' = TRUE
    /\ pc' = "done"
    /\ UNCHANGED <<flow, name, toplevel, files, idx, roles, edam_files, arch,
                   chipdb, device, package, targets, commands, default_target,
                   error>>
    /\ UNCHANGED SymbiflowLocals

InitNextpnr ==
    /\ flow = "Nextpnr"
    /\ name = "blinky" /\ toplevel = "blinky"
    /\ files \in FileLists(NextpnrFileTypes, MaxFiles)
    /\ pnr = Unset

NextNextpnr == NpStart \/ NpClassify \/ NpStages \/ NpWrite

-----------------------------------------------------------------------------
(* Symbiflow: values and helpers *)

SymbiflowPnrs == {"nextpnr", "vpr", "vtr", "other"}
SymbiflowArchOptions == {"xilinx", "fpga_interchange", "ice40"}
SymbiflowParts == {None, "xc7a35t", "ql-eos-s3"}
SymbiflowPackages == {None, "clg400-1"}
SymbiflowVendors == {None, "xilinx", "quicklogic"}
SymbiflowDbroots == {None, "/db"}
SymbiflowSchemaDirs == {None, "/schema"}
SfnFileTypes == {"bba", "device", "xdc", "RRGraph", "VPRGrid", "capnp", "other"}
SfvFileTypes == {"verilogSource", "SDC", "PCF", "xdc", "RRGraph", "VPRGrid",
                 "capnp", "other"}

\* Symbiflow.archs (line 33)
archs == {"xilinx", "fpga_interchange"}
\* Symbiflow.fpga_interchange_families (line 34)
fpga_interchange_families == <<"xc7">>

\* the locals of lines 174-179 and 360-367
EmptySlots ==
    [chipdb |-> None, device |-> None, placement_constraints |-> <<>>,
     vpr_grid |-> None, rr_graph |-> None, vpr_capnp_schema |-> None,
     file_list |-> <<>>, timing_constraints |-> <<>>, pins_constraints |-> <<>>]

\* edalize.yosys Yosys.configure: the commands of the synthesis sub-tool, whose
\* output is <name>.json (output_format json, line 130)
YosysCommands(nm) == CommandsAdd(<<>>, <<"yosys">>, <<nm \o ".json">>, <<>>)

\* lines 212-217 and 397-402: three independent ifs, the last match wins
BitstreamDevice(p) ==
    IF Contains("xc7k", p) THEN "kintex7"
    ELSE IF Contains("xc7z", p) THEN "zynq7"
    ELSE IF Contains("xc7a", p) THEN "artix7"
    ELSE Unset

PyError(kind, key) == [kind |-> kind, key |-> key, names |-> <<>>]

\* the messages logger.error gets, for the conditions of conds that hold
Logged(conds) == SelectSeq(conds, LAMBDA c : c.on)
LogKeys(conds) == [i \in 1..Len(Logged(conds)) |-> Logged(conds)[i].key]

\* lines 312-313, 427-428 and 450-451
Fasm2belsInputMissing(s, root) ==
    s.rr_graph = None \/ s.vpr_grid = None \/ root = None

\* lines 328-347 and 523-545: the fasm2bels stage and the timing stage
Fasm2belsStages(cmds, top, root, bsdev, pname, s, with_eblif) ==
    LET command ==
            <<"python -m fasm2bels", "--db_root", root \o "/" \o bsdev,
              "--part", pname, "--bitread bitread",
              "--bit_file", top \o ".bit", "--fasm_file", top \o ".bit.fasm">>
            \o (IF with_eblif THEN <<"--eblif", top \o ".eblif">> ELSE <<>>)
            \o <<"--connection_database channels.db", "--rr_graph", s.rr_graph,
                 "--route_file", top \o ".route", "--vpr_grid_map", s.vpr_grid,
                 "--vpr_capnp_schema_dir", s.vpr_capnp_schema>>
            \o (IF with_eblif /\ Len(s.pins_constraints) > 0
                THEN <<"--pcf " \o JoinSpace(s.pins_constraints)>> ELSE <<>>)
            \o <<"--verilog_file", top \o ".bit.v",
                 "--xdc_file", top \o ".bit.xdc", "&& rm channels.db">>
        c1 == CommandsAdd(cmds, command, <<top \o ".bit.v">>, <<>>)
    IN  CommandsAdd(c1, <<"bash vivado.sh">>, <<"timing_summary.rpt">>,
                    <<top \o ".bit.v">>)

\* the variables only Nextpnr assigns
NextpnrLocals == <<idx, roles, edam_files, chipdb, device>>

-----------------------------------------------------------------------------
(* Symbiflow.configure_main *)

\* lines 590-598
SfMain ==
    /\ flow = "Symbiflow" /\ pc = "start"
    /\ IF pnr = "nextpnr" THEN pc' = "sfn_options" /\ log' = log
       ELSE IF pnr \in {"vtr", "vpr"} THEN pc' = "sfv_classify" /\ log' = log
       ELSE pc' = "done" /\ log' = Append(log, "pnr")
    /\ UNCHANGED <<flow, name, toplevel, files, pnr, arch, package, part,
                   vendor, fasm2bels, dbroot, schema_dir, slots, partname,
                   bitstream_device, targets, commands, cmd_header, cmd_vars,
                   default_target, written, error>>
    /\ UNCHANGED NextpnrLocals

-----------------------------------------------------------------------------
(* Symbiflow.configure_nextpnr *)

\* lines 161-165: the family of the part, None when no family matches
TargetFamily(p) ==
    LET hits == {i \in 1..Len(fpga_interchange_families) :
                    Contains(fpga_interchange_families[i], p)}
    IN  IF hits = {} THEN None
        ELSE fpga_interchange_families[CHOOSE i \in hits : \A j \in hits : i <= j]

\* lines 183-196: the body of the loop for one file
SfnClassifyOne(s, f) ==
    IF f.file_type = "bba" THEN [s EXCEPT !.chipdb = f.name]
    ELSE IF f.file_type = "device" THEN [s EXCEPT !.device = f.name]
    ELSE IF f.file_type = "xdc"
    THEN [s EXCEPT !.placement_constraints = Append(@, f.name)]
    ELSE IF f.file_type = "RRGraph" THEN [s EXCEPT !.rr_graph = f.name]
    ELSE IF f.file_type = "VPRGrid" THEN [s EXCEPT !.vpr_grid = f.name]
    ELSE IF f.file_type = "capnp" THEN [s EXCEPT !.vpr_capnp_schema = f.name]
    ELSE s

\* lines 182-196: the loop over src_files
RECURSIVE SfnClassifyFiles(_, _)
SfnClassifyFiles(s, fs) ==
    IF fs = <<>> THEN s
    ELSE SfnClassifyFiles(SfnClassifyOne(s, Head(fs)), Tail(fs))

\* lines 220-222
RECURSIVE Xdcs(_)
Xdcs(pcs) ==
    IF pcs = <<>> THEN <<>> ELSE <<"--xdc", Head(pcs)>> \o Xdcs(Tail(pcs))

\* lines 250 and 270
SchemaDirToken(sd) == IF sd = None THEN "$(INTERCHANGE_SCHEMA_PATH)" ELSE sd

\* lines 239-247 without the test of line 239: both guards are appended
\* whether or not schema_dir is given
InterchangeHeaderBothGuards(sd) ==
    <<"ifndef INTERCHANGE_SCHEMA_PATH">> \o <<"ifndef RAPIDWRIGHT_PATH">>

\* lines 239-247: the guards appended to the header
InterchangeHeader(sd) ==
    (IF sd = None THEN <<"ifndef INTERCHANGE_SCHEMA_PATH">> ELSE <<>>)
    \o <<"ifndef RAPIDWRIGHT_PATH">>

\* lines 248-290: the five stages of the fpga_interchange branch
SfnInterchangeStages(cmds, a, nm, top, s, pkg, sd) ==
    LET xdcs == Xdcs(s.placement_constraints)
        c1 == CommandsAdd(cmds,
                <<"python", "-m", "fpga_interchange.yosys_json", "--schema_dir",
                  SchemaDirToken(sd), "--device", s.device, "--top", top,
                  nm \o ".json", nm \o ".netlist">>,
                <<nm \o ".netlist">>, <<nm \o ".json">>)
        c2 == CommandsAdd(c1,
                <<"nextpnr-" \o a, "--chipdb", s.chipdb, "--package", pkg>>
                \o xdcs
                \o <<"--netlist", nm \o ".netlist", "--write",
                     nm \o ".routed.json", "--phys", nm \o ".phys", "">>,
                <<nm \o ".phys">>, <<nm \o ".netlist">>)
        c3 == CommandsAdd(c2,
                <<"python", "-m", "fpga_interchange.fasm_generator",
                  "--schema_dir", SchemaDirToken(sd), "--family",
                  fpga_interchange_families[Len(fpga_interchange_families)],
                  s.device, nm \o ".netlist", nm \o ".phys", nm \o ".fasm">>,
                <<nm \o ".fasm">>, <<nm \o ".phys">>)
        c4 == CommandsAdd(c3,
                <<"RAPIDWRIGHT_PATH=${RAPIDWRIGHT_PATH} ${RAPIDWRIGHT_PATH}/scripts/invoke_rapidwright.sh com.xilinx.rapidwright.interchange.PhysicalNetlistToDcp",
                  nm \o ".netlist", nm \o ".phys", xdcs[2], nm \o ".dcp">>,
                <<nm \o ".dcp">>, <<nm \o ".fasm">>)
    IN  CommandsAdd(c4, <<"bash vivado.sh">>, <<nm \o ".timing">>,
                    <<nm \o ".dcp">>)

\* lines 292-300: the single stage of the other branch
SfnDirectStage(cmds, a, nm, s) ==
    CommandsAdd(cmds,
        <<"nextpnr-" \o a, "--chipdb", s.chipdb>>
        \o Xdcs(s.placement_constraints)
        \o <<"--json", nm \o ".json", "--write", nm \o ".routed.json",
             "--fasm", nm \o ".fasm", "--log", "nextpnr.log", "">>,
        <<nm \o ".fasm">>, <<nm \o ".json">>)

\* lines 302-306 with the bitstream stage declaring the output of the stage
\* before it: targets is not advanced from name.fasm to name.bit
SfnBitstreamStageStaleTarget(cmds, nm, bsdev, pname) ==
    CommandsAdd(cmds,
        <<"symbiflow_write_bitstream", "-d", bsdev, "-f", nm \o ".fasm",
          "-p", pname, "-b", nm \o ".bit">>,
        <<nm \o ".fasm">>, <<nm \o ".fasm">>)

\* lines 302-306
SfnBitstreamStage(cmds, nm, bsdev, pname) ==
    CommandsAdd(cmds,
        <<"symbiflow_write_bitstream", "-d", bsdev, "-f", nm \o ".fasm",
          "-p", pname, "-b", nm \o ".bit">>,
        <<nm \o ".bit">>, <<nm \o ".fasm">>)

\* lines 207-306: the locals and the stages up to the bitstream
SfnBuild(a, nm, top, s, prt, pkg, sd) ==
    LET base == [error |-> NoError, commands |-> <<>>, header |-> <<>>,
                 targets |-> Unset, partname |-> Unset, package |-> pkg,
                 bitstream_device |-> Unset]
    IN  IF pkg = None
        THEN [base EXCEPT !.error = PyError("TypeError", "part + package")]
        ELSE
        LET pkg2 == IF a = "fpga_interchange" THEN SplitDashFirst(pkg) ELSE None
            bsdev == BitstreamDevice(prt)
            loc == [base EXCEPT !.partname = prt \o pkg, !.package = pkg2,
                                !.bitstream_device = bsdev,
                                !.commands = YosysCommands(nm)]
        IN  IF a = "fpga_interchange" /\ Len(Xdcs(s.placement_constraints)) # 2
            THEN [loc EXCEPT !.error = PyError("AssertionError", "len(xdcs) == 2")]
            ELSE
            LET pnr_cmds == IF a = "fpga_interchange"
                            THEN SfnInterchangeStages(loc.commands, a, nm, top,
                                                      s, pkg2, sd)
                            ELSE SfnDirectStage(loc.commands, a, nm, s)
                st == [loc EXCEPT
                         !.commands = pnr_cmds,
                         !.header = IF a = "fpga_interchange"
                                    THEN InterchangeHeader(sd) ELSE <<>>,
                         !.targets = pnr_cmds[Len(pnr_cmds)].targets[1]]
            IN  IF bsdev = Unset
                THEN [st EXCEPT !.error = PyError("UnboundLocalError",
                                                  "bitstream_device")]
                ELSE [st EXCEPT
                        !.commands = SfnBitstreamStage(pnr_cmds, nm, bsdev,
                                                       prt \o pkg),
                        !.targets = nm \o ".bit"]

\* lines 115-172: the options arch, package and part
SfnOptions ==
    /\ flow = "Symbiflow" /\ pc = "sfn_options"
    /\ \E a \in SymbiflowArchOptions, k \in SymbiflowPackages,
          p \in SymbiflowParts :
         /\ arch' = a /\ package' = k /\ part' = p
         /\ IF p = None
            THEN /\ log' = log \o LogKeys(<<[on |-> a \notin archs, key |-> "arch"],
                                            [on |-> ~Truthy(k), key |-> "package"],
                                            [on |-> TRUE, key |-> "part"]>>)
                 /\ error' = PyError("TypeError", "family in part")
                 /\ pc' = "failed"
            ELSE /\ log' = log \o LogKeys(<<[on |-> a \notin archs, key |-> "arch"],
                                            [on |-> ~Truthy(k), key |-> "package"],
                                            [on |-> ~Truthy(p), key |-> "part"],
                                            [on |-> TargetFamily(p) = None
                                                    /\ a = "fpga_interchange",
                                             key |-> "family"]>>)
                 /\ error' = error
                 /\ pc' = "sfn_classify"
    /\ UNCHANGED <<flow, name, toplevel, files, pnr, vendor, fasm2bels, dbroot,
                   schema_dir, slots, partname, bitstream_device, targets,
                   commands, cmd_header, cmd_vars, default_target, written>>
    /\ UNCHANGED NextpnrLocals

\* lines 174-205: the loop over src_files and the checks after it
SfnClassify ==
    /\ flow = "Symbiflow" /\ pc = "sfn_classify"
    /\ LET s == SfnClassifyFiles(EmptySlots, files)
       IN  /\ slots' = s
           /\ log' = log \o LogKeys(<<[on |-> ~Truthy(s.chipdb), key |-> "chipdb"],
                                      [on |-> s.placement_constraints = <<>>,
                                       key |-> "xdc"],
                                      [on |-> s.device = None
                                              /\ arch = "fpga_interchange",
                                       key |-> "device"]>>)
    /\ pc' = "sfn_stages"
    /\ UNCHANGED <<flow, name, toplevel, files, pnr, arch, package, part,
                   vendor, fasm2bels, dbroot, schema_dir, partname,
                   bitstream_device, targets, commands, cmd_header, cmd_vars,
                   default_target, written, error>>
    /\ UNCHANGED NextpnrLocals

\* lines 207-306: partname, bitstream_device and the stages up to the bitstream
SfnStages ==
    /\ flow = "Symbiflow" /\ pc = "sfn_stages"
    /\ \E sd \in (IF arch = "fpga_interchange" /\ package # None
                     /\ Len(Xdcs(slots.placement_constraints)) = 2
                  THEN SymbiflowSchemaDirs ELSE {Unset}) :
         LET b == SfnBuild(arch, name, toplevel, slots, part, package, sd)
         IN  /\ schema_dir' = sd
             /\ partname' = b.partname
             /\ package' = b.package
             /\ bitstream_device' = b.bitstream_device
             /\ commands' = b.commands
             /\ cmd_header' = b.header
             /\ targets' = b.targets
             /\ error' = b.error
             /\ pc' = IF b.error = NoError THEN "sfn_fasm2bels" ELSE "failed"
    /\ UNCHANGED <<flow, name, toplevel, files, pnr, arch, part, vendor,
                   fasm2bels, dbroot, slots, cmd_vars, default_target, written,
                   log>>
    /\ UNCHANGED NextpnrLocals

\* lines 308-347: the fasm2bels sub-flow
SfnFasm2bels ==
    /\ flow = "Symbiflow" /\ pc = "sfn_fasm2bels"
    /\ \E fb \in BOOLEAN, root \in SymbiflowDbroots :
         /\ fasm2bels' = fb /\ dbroot' = root
         /\ log' = log \o LogKeys(<<[on |-> fb /\ Fasm2belsInputMissing(slots, root),
                                     key |-> "fasm2bels"]>>)
         /\ IF fb /\ root = None
            THEN /\ error' = PyError("TypeError", "dbroot + str")
                 /\ pc' = "failed"
                 /\ UNCHANGED <<commands, targets>>
            ELSE /\ error' = error
                 /\ pc' = "sfn_finish"
                 /\ IF fb
                    THEN /\ commands' = Fasm2belsStages(commands, toplevel, root,
                                            bitstream_device, partname, slots, FALSE)
                         /\ targets' = "timing_summary.rpt"
                    ELSE UNCHANGED <<commands, targets>>
    /\ UNCHANGED <<flow, name, toplevel, files, pnr, arch, package, part,
                   vendor, schema_dir, slots, partname, bitstream_device,
                   cmd_header, cmd_vars, default_target, written>>
    /\ UNCHANGED NextpnrLocals

\* lines 349-350: set_default_target and commands.write(Makefile)
SfnFinish ==
    /\ flow = "Symbiflow" /\ pc = "sfn_finish"
    /\ default_target' = SetDefaultTarget(targets)
    /\ written' = TRUE
    /\ pc' = "done"
    /\ UNCHANGED <<flow, name, toplevel, files, pnr, arch, package, part,
                   vendor, fasm2bels, dbroot, schema_dir, slots, partname,
                   bitstream_device, targets, commands, cmd_header, cmd_vars,
                   error, log>>
    /\ UNCHANGED NextpnrLocals

-----------------------------------------------------------------------------
(* Symbiflow.configure_vpr *)

\* lines 370-383: the body of the loop for one file
SfvClassifyOne(s, f) ==
    IF f.file_type = "verilogSource" THEN [s EXCEPT !.file_list = Append(@, f.name)]
    ELSE IF f.file_type = "SDC"
    THEN [s EXCEPT !.timing_constraints = Append(@, f.name)]
    ELSE IF f.file_type = "PCF"
    THEN [s EXCEPT !.pins_constraints = Append(@, f.name)]
    ELSE IF f.file_type = "xdc"
    THEN [s EXCEPT !.placement_constraints = Append(@, f.name)]
    ELSE IF f.file_type = "RRGraph" THEN [s EXCEPT !.rr_graph = f.name]
    ELSE IF f.file_type = "VPRGrid" THEN [s EXCEPT !.vpr_grid = f.name]
    ELSE IF f.file_type = "capnp" THEN [s EXCEPT !.vpr_capnp_schema = f.name]
    ELSE s

\* lines 369-383: the loop over src_files
RECURSIVE SfvClassifyFiles(_, _)
SfvClassifyFiles(s, fs) ==
    IF fs = <<>> THEN s
    ELSE SfvClassifyFiles(SfvClassifyOne(s, Head(fs)), Tail(fs))

\* lines 396-414: the locals the vendor branch assigns
VendorLocals(v, prt, pkg) ==
    LET base == [error |-> NoError, part |-> prt, partname |-> Unset,
                 bitstream_device |-> Unset, device_suffix |-> Unset]
    IN  IF v = "xilinx"
        THEN IF prt = None
             THEN [base EXCEPT !.error = PyError("TypeError", "in part")]
             ELSE IF pkg = None
             THEN [base EXCEPT !.error = PyError("TypeError", "part + package"),
                               !.bitstream_device = BitstreamDevice(prt)]
             ELSE [base EXCEPT !.bitstream_device = BitstreamDevice(prt),
                               !.partname = prt \o pkg,
                               !.part = IF prt = "xc7a35t" THEN "xc7a50t" ELSE prt,
                               !.device_suffix = "test"]
        ELSE IF v = "quicklogic"
        THEN IF prt = None
             THEN [base EXCEPT !.error = PyError("TypeError", "part + str"),
                               !.partname = pkg, !.device_suffix = "wlcsp"]
             ELSE [base EXCEPT !.partname = pkg, !.device_suffix = "wlcsp",
                               !.bitstream_device = prt \o "_" \o "wlcsp"]
        ELSE base

\* lines 418-420
PcfOpts(s) == IF s.pins_constraints # <<>> THEN <<"-p">> \o s.pins_constraints ELSE <<>>
SdcOpts(s) == IF s.timing_constraints # <<>> THEN <<"-s">> \o s.timing_constraints ELSE <<>>
XdcOpts(s) == IF s.placement_constraints # <<>> THEN <<"-x">> \o s.placement_constraints ELSE <<>>

\* lines 474-520 with the depends of the route stage (line 504) taken over
\* from the place stage: route waits for .net, not for .place
VprMainChainRouteAfterPack(top, v, prt, pname, bsdev, suffix, s) ==
    LET eblif_opt == <<"-e", top \o ".eblif">>
        device_opt == <<"-d", prt \o "_" \o suffix>>
        c1 == CommandsAdd(<<>>,
                <<"symbiflow_synth", "-t", top, "-v">> \o s.file_list
                \o <<"-d", bsdev>>
                \o (IF PcfOpts(s) # <<>> THEN PcfOpts(s) ELSE <<"-p">>)
                \o <<"-P", pname>>
                \o (IF v = "quicklogic" /\ s.pins_constraints # <<>>
                    THEN PcfOpts(s) ELSE <<>>)
                \o XdcOpts(s),
                <<top \o ".eblif">>, <<>>)
        c2 == CommandsAdd(c1,
                <<"symbiflow_pack">> \o eblif_opt \o device_opt \o SdcOpts(s),
                <<top \o ".net">>, <<top \o ".eblif">>)
        c3 == CommandsAdd(c2,
                <<"symbiflow_place">> \o eblif_opt \o device_opt
                \o <<"-n", top \o ".net", "-P", pname>> \o SdcOpts(s) \o PcfOpts(s),
                <<top \o ".place">>, <<top \o ".net">>)
        c4 == CommandsAdd(c3,
                <<"symbiflow_route">> \o eblif_opt \o device_opt \o SdcOpts(s),
                <<top \o ".route">>, <<top \o ".net">>)
        c5 == CommandsAdd(c4,
                <<"symbiflow_write_fasm">> \o eblif_opt \o device_opt \o SdcOpts(s),
                <<top \o ".fasm">>, <<top \o ".route">>)
    IN  CommandsAdd(c5,
                <<"symbiflow_write_bitstream", "-d", bsdev, "-f", top \o ".fasm",
                  IF v = "xilinx" THEN "-p" ELSE "-P", pname, "-b", top \o ".bit">>,
                <<top \o ".bit">>, <<top \o ".fasm">>)

\* lines 474-520: the six stages of the main chain (vpr_options is not set)
VprMainChain(top, v, prt, pname, bsdev, suffix, s) ==
    LET eblif_opt == <<"-e", top \o ".eblif">>
        device_opt == <<"-d", prt \o "_" \o suffix>>
        c1 == CommandsAdd(<<>>,
                <<"symbiflow_synth", "-t", top, "-v">> \o s.file_list
                \o <<"-d", bsdev>>
                \o (IF PcfOpts(s) # <<>> THEN PcfOpts(s) ELSE <<"-p">>)
                \o <<"-P", pname>>
                \o (IF v = "quicklogic" /\ s.pins_constraints # <<>>
                    THEN PcfOpts(s) ELSE <<>>)
                \o XdcOpts(s),
                <<top \o ".eblif">>, <<>>)
        c2 == CommandsAdd(c1,
                <<"symbiflow_pack">> \o eblif_opt \o device_opt \o SdcOpts(s),
                <<top \o ".net">>, <<top \o ".eblif">>)
        c3 == CommandsAdd(c2,
                <<"symbiflow_place">> \o eblif_opt \o device_opt
                \o <<"-n", top \o ".net", "-P", pname>> \o SdcOpts(s) \o PcfOpts(s),
                <<top \o ".place">>, <<top \o ".net">>)
        c4 == CommandsAdd(c3,
                <<"symbiflow_route">> \o eblif_opt \o device_opt \o SdcOpts(s),
                <<top \o ".route">>, <<top \o ".place">>)
        c5 == CommandsAdd(c4,
                <<"symbiflow_write_fasm">> \o eblif_opt \o device_opt \o SdcOpts(s),
                <<top \o ".fasm">>, <<top \o ".route">>)
    IN  CommandsAdd(c5,
                <<"symbiflow_write_bitstream", "-d", bsdev, "-f", top \o ".fasm",
                  IF v = "xilinx" THEN "-p" ELSE "-P", pname, "-b", top \o ".bit">>,
                <<top \o ".bit">>, <<top \o ".fasm">>)

\* lines 547-574: the four quicklogic stages after the bitstream
QuicklogicStages(cmds, top) ==
    LET bit == top \o ".bit"
        c1 == CommandsAdd(cmds, <<"symbiflow_write_binary", bit, top \o ".bin">>,
                          <<top \o ".bin">>, <<bit>>)
        c2 == CommandsAdd(c1, <<"symbiflow_write_bitheader", bit, top \o ".h">>,
                          <<top \o ".h">>, <<bit>>)
        c3 == CommandsAdd(c2, <<"symbiflow_write_openocd", bit, top \o ".openocd.cfg">>,
                          <<top \o ".openocd.cfg">>, <<bit>>)
    IN  CommandsAdd(c3, <<"symbiflow_write_jlink", bit, top \o ".jlink">>,
                    <<top \o ".jlink">>, <<bit>>)

\* lines 576-587 without the vendor test of line 576: the three quicklogic
\* outputs become the default target for every vendor
VprDefaultTargetQuicklogicAlways(v, top, tgt) ==
    SetDefaultTarget(top \o ".bin" \o " " \o top \o ".h" \o " " \o top
                     \o ".openocd.cfg")

\* lines 576-587: the default target
VprDefaultTarget(v, top, tgt) ==
    IF v = "quicklogic"
    THEN SetDefaultTarget(top \o ".bin" \o " " \o top \o ".h" \o " " \o top
                          \o ".openocd.cfg")
    ELSE SetDefaultTarget(tgt)

\* lines 353-383: the loop over src_files
SfvClassify ==
    /\ flow = "Symbiflow" /\ pc = "sfv_classify"
    /\ slots' = SfvClassifyFiles(EmptySlots, files)
    /\ pc' = "sfv_options"
    /\ UNCHANGED <<flow, name, toplevel, files, pnr, arch, package, part,
                   vendor, fasm2bels, dbroot, schema_dir, partname,
                   bitstream_device, targets, commands, cmd_header, cmd_vars,
                   default_target, written, error, log>>
    /\ UNCHANGED NextpnrLocals

\* lines 385-466: the options, the vendor branch and the two fasm2bels checks
SfvOptions ==
    /\ flow = "Symbiflow" /\ pc = "sfv_options"
    /\ \E p \in SymbiflowParts, k \in SymbiflowPackages, v \in SymbiflowVendors,
          fb \in BOOLEAN, root \in SymbiflowDbroots :
         LET loc == VendorLocals(v, p, k)
             unbound == loc.error = NoError /\ fb /\ loc.partname = Unset
             early == <<[on |-> ~Truthy(p), key |-> "part"],
                        [on |-> ~Truthy(k), key |-> "package"]>>
             missing == [on |-> Fasm2belsInputMissing(slots, root),
                         key |-> "fasm2bels"]
         IN  /\ package' = k /\ vendor' = v
             /\ part' = loc.part
             /\ partname' = loc.partname
             /\ bitstream_device' = loc.bitstream_device
             /\ IF loc.error # NoError
                THEN /\ error' = loc.error
                     /\ log' = log \o LogKeys(early)
                     /\ pc' = "failed"
                     /\ UNCHANGED <<fasm2bels, dbroot>>
                ELSE /\ fasm2bels' = fb /\ dbroot' = root
                     /\ IF unbound
                        THEN /\ error' = PyError("UnboundLocalError", "partname")
                             /\ log' = log \o LogKeys(early \o <<missing>>)
                             /\ pc' = "failed"
                        ELSE /\ error' = error
                             /\ log' = log \o LogKeys(early \o
                                          (IF fb THEN <<missing, missing>> ELSE <<>>))
                             /\ pc' = "sfv_stages"
    /\ UNCHANGED <<flow, name, toplevel, files, pnr, arch, schema_dir, slots,
                   targets, commands, cmd_header, cmd_vars, default_target,
                   written>>
    /\ UNCHANGED NextpnrLocals

\* lines 468-545: the variables, the main chain and the fasm2bels stages
SfvStages ==
    /\ flow = "Symbiflow" /\ pc = "sfv_stages"
    /\ cmd_vars' = <<"export EDALIZE_VENDOR=" \o PyStr(vendor),
                     "export EDALIZE_PART=" \o PyStr(part)>>
    /\ IF bitstream_device = Unset
       THEN /\ error' = PyError("UnboundLocalError", "bitstream_device")
            /\ pc' = "failed"
            /\ commands' = <<>>
            /\ targets' = toplevel \o ".eblif"
       ELSE LET chain == VprMainChain(toplevel, vendor, part, partname,
                                      bitstream_device,
                                      IF vendor = "xilinx" THEN "test" ELSE "wlcsp",
                                      slots)
            IN  IF fasm2bels /\ dbroot = None
                THEN /\ error' = PyError("TypeError", "dbroot + str")
                     /\ pc' = "failed"
                     /\ commands' = chain
                     /\ targets' = toplevel \o ".bit.v"
                ELSE /\ error' = error
                     /\ pc' = "sfv_finish"
                     /\ commands' = IF fasm2bels
                                    THEN Fasm2belsStages(chain, toplevel, dbroot,
                                             bitstream_device, partname, slots, TRUE)
                                    ELSE chain
                     /\ targets' = IF fasm2bels THEN "timing_summary.rpt"
                                   ELSE toplevel \o ".bit"
    /\ UNCHANGED <<flow, name, toplevel, files, pnr, arch, package, part,
                   vendor, fasm2bels, dbroot, schema_dir, slots, partname,
                   bitstream_device, cmd_header, default_target, written, log>>
    /\ UNCHANGED NextpnrLocals

\* lines 547-588: the quicklogic stages, set_default_target and
\* commands.write(Makefile)
SfvFinish ==
    /\ flow = "Symbiflow" /\ pc = "sfv_finish"
    /\ commands' = IF vendor = "quicklogic"
                   THEN QuicklogicStages(commands, toplevel) ELSE commands
    /\ targets' = IF vendor = "quicklogic" THEN toplevel \o ".jlink" ELSE targets
    /\ default_target' = VprDefaultTarget(vendor, toplevel, targets)
    /\ written' = TRUE
    /\ pc' = "done"
    /\ UNCHANGED <<flow, name, toplevel, files, pnr, arch, package, part,
                   vendor, fasm2bels, dbroot, schema_dir, slots, partname,
                   bitstream_device, cmd_header, cmd_vars, error, log>>
    /\ UNCHANGED NextpnrLocals

InitSymbiflow ==
    /\ flow = "Symbiflow"
    /\ name = "blinky"
    /\ pnr \in SymbiflowPnrs
    /\ toplevel \in (IF pnr = "nextpnr" THEN {"blinky", "top"} ELSE {"top"})
    /\ files \in (IF pnr = "nextpnr"
                  THEN FileLists(SfnFileTypes, MaxNextpnrSrcFiles)
                  ELSE FileLists(SfvFileTypes, MaxVprSrcFiles))

NextSymbiflow ==
    \/ SfMain
    \/ SfnOptions \/ SfnClassify \/ SfnStages \/ SfnFasm2bels \/ SfnFinish
    \/ SfvClassify \/ SfvOptions \/ SfvStages \/ SfvFinish

-----------------------------------------------------------------------------
(* The specification *)

Init ==
    /\ InitNextpnr \/ InitSymbiflow
    /\ pc = "start"
    /\ idx = 0
    /\ roles = EmptyRoles
    /\ edam_files = <<>>
    /\ arch = Unset /\ chipdb = Unset /\ device = Unset /\ package = Unset
    /\ part = Unset /\ vendor = Unset /\ fasm2bels = FALSE /\ dbroot = Unset
    /\ schema_dir = Unset
    /\ slots = EmptySlots
    /\ partname = Unset /\ bitstream_device = Unset /\ targets = Unset
    /\ commands = <<>> /\ cmd_header = <<>> /\ cmd_vars = <<>>
    /\ default_target = Unset
    /\ written = FALSE
    /\ error = NoError
    /\ log = <<>>

Next == NextNextpnr \/ NextSymbiflow

Spec == Init /\ [][Next]_vars

-----------------------------------------------------------------------------
(* Properties *)

\* the configure call has returned or raised
Ended == pc \in {"done", "failed"}

\* positions of the input files that carry type tag t
TypeIdx(t) == {i \in 1..Len(files) : files[i].file_type = t}

\* the stages the configure operation itself registered (Symbiflow's nextpnr
\* flow starts from the commands of the yosys sub-tool)
OwnStages ==
    IF flow = "Symbiflow" /\ pnr = "nextpnr" /\ commands # <<>>
    THEN SubSeq(commands, Len(YosysCommands(name)) + 1, Len(commands))
    ELSE commands

\* some registered stage has output t
HasStageFor(t) == \E i \in 1..Len(commands) : commands[i].targets = <<t>>

RoleSlotNames == {"cst_file", "lpf_file", "pcf_file", "xdc_file", "pdc_file",
                  "qsf_file", "netlist"}
RoleSlotsHolding(f) == {r \in RoleSlotNames : roles[r] = f.name}
UnusedOccurrences(f) ==
    {i \in 1..Len(roles.unused_files) : roles.unused_files[i] = f}

\* the classification loop of Nextpnr.configure_main has run over every file
\* without raising
ClassificationComplete == flow = "Nextpnr" /\ idx = Len(files) + 1

(* C1: once the classification loop of Nextpnr.configure_main has completed
   without error, every input file is in exactly one place: in exactly one
   role slot, or exactly once in the unused list, never both and never
   neither. *)
C1_EveryFileInExactlyOnePlace ==
    ClassificationComplete =>
        \A i \in 1..Len(files) :
            Cardinality(RoleSlotsHolding(files[i]))
            + Cardinality(UnusedOccurrences(files[i])) = 1

NextpnrSingularTypes == {"CST", "LPF", "PDC", "PCF", "XDC", "QSF", "jsonNetlist",
                         "fpgaInterchangeNetlist"}
SfnSingularTypes == {"bba", "device", "RRGraph", "VPRGrid", "capnp"}

\* the singular roles of the flow that is being configured
SingularTypes ==
    IF flow = "Nextpnr" THEN NextpnrSingularTypes
    ELSE IF pnr = "nextpnr" THEN SfnSingularTypes
    ELSE {}

\* two of the input files carry the type tag of one singular role
TwoFilesForOneRole == \E t \in SingularTypes : Cardinality(TypeIdx(t)) >= 2

(* C2: with two files carrying the type tag of one singular role,
   configuration never completes: the call does not return normally and no
   Makefile is written, so the second file is never silently accepted and
   never overwrites the first. *)
C2_DuplicateRoleAlwaysFails ==
    TwoFilesForOneRole => pc # "done" /\ ~written

NextpnrConstraintTypes == {"CST", "LPF", "PDC", "PCF", "XDC", "QSF"}

(* C3: when Nextpnr.configure_main rejects a second file of a singular
   constraint role, the error names the file recorded first and the file
   that collided with it. *)
C3_DuplicateErrorNamesBothFiles ==
    (flow = "Nextpnr" /\ pc = "failed" /\ error.kind = "Duplicate"
       /\ error.key \in NextpnrConstraintTypes) =>
        \E i \in 1..(idx - 1) :
            /\ files[i].file_type = files[idx].file_type
            /\ error.names = <<files[i].name, files[idx].name>>

(* C4: commands.write is reached only by a configuration in which no error
   condition was detected: nothing was raised and nothing was reported with
   logger.error. *)
C4_NoWriteAfterDetectedError ==
    written => error = NoError /\ log = <<>>

\* the selector read so far is outside the supported set
UnsupportedSelector ==
    \/ flow = "Nextpnr" /\ arch = "unknown"
    \/ flow = "Symbiflow" /\ pnr \notin {"nextpnr", "vtr", "vpr"}
    \/ flow = "Symbiflow" /\ pnr = "nextpnr" /\ arch # Unset /\ arch \notin archs

(* C5: with an architecture or pnr selector outside the supported set, no
   stage is registered and no Makefile is written, and the call ends with
   the selector reported as unsupported. *)
C5_UnsupportedSelectorProducesNothing ==
    UnsupportedSelector =>
        /\ OwnStages = <<>>
        /\ ~written
        /\ Ended => (error.kind = "UnsupportedVariant"
                     \/ \E i \in 1..Len(log) : log[i] \in {"pnr", "arch"})

\* the exception that names a missing option key
MissingOptionError(key) ==
    error.kind = "MissingOption" /\ error.key = key

(* C6: a Nextpnr variant configured with its required option absent or empty
   (chipdb for fpga_interchange, device for mistral, nexus and gowin) fails
   with an error naming the key, registers no stage and writes no Makefile;
   ecp5 and the default variant configure successfully without the option. *)
C6_RequiredOptionEnforced ==
    /\ (flow = "Nextpnr" /\ arch = "fpga_interchange" /\ ~Truthy(chipdb)) =>
           pc = "failed" /\ MissingOptionError("chipdb") /\ commands = <<>>
           /\ ~written
    /\ (flow = "Nextpnr" /\ arch \in {"mistral", "nexus", "gowin"}
          /\ device # Unset /\ ~Truthy(device)) =>
           pc = "failed" /\ MissingOptionError("device") /\ commands = <<>>
           /\ ~written
    /\ (ClassificationComplete /\ arch \in {"ecp5", "ice40"} /\ Ended) =>
           pc = "done" /\ written /\ device = Unset

\* the variant needs a constraint file and the input, valid in every other
\* respect the operation checks, holds none with its tag
RequiredConstraintAbsent ==
    \/ /\ flow = "Nextpnr" /\ arch = "fpga_interchange" /\ Truthy(chipdb)
       /\ Cardinality(TypeIdx("fpgaInterchangeNetlist")) = 1
       /\ TypeIdx("XDC") = {}
    \/ /\ flow = "Symbiflow" /\ pnr = "nextpnr" /\ arch \in archs
       /\ TypeIdx("xdc") = {}

(* C7: when the variant requires a constraint file and none is supplied
   (Nextpnr fpga_interchange without an XDC file, Symbiflow's nextpnr flow
   without an xdc file), no stage is emitted and no Makefile is written. *)
C7_MissingConstraintEmitsNoStage ==
    RequiredConstraintAbsent => OwnStages = <<>> /\ ~written

NetlistTypes == {"jsonNetlist", "fpgaInterchangeNetlist"}
Range(seq) == {seq[i] : i \in 1..Len(seq)}

\* both netlist formats are among the input files
BothNetlistFormats ==
    TypeIdx("jsonNetlist") # {} /\ TypeIdx("fpgaInterchangeNetlist") # {}

(* C8: with a jsonNetlist file and a fpgaInterchangeNetlist file both
   supplied to Nextpnr.configure_main, configuration fails, and when a
   netlist file is rejected the error is a format mismatch naming a file of
   each format, whatever the supply order and the architecture. *)
C8_NetlistMismatchNamesBoth ==
    (flow = "Nextpnr" /\ BothNetlistFormats /\ Truthy(chipdb)) =>
        /\ pc # "done" /\ ~written
        /\ (pc = "failed" /\ idx \in 1..Len(files)
              /\ files[idx].file_type \in NetlistTypes) =>
               /\ error.kind = "FormatMismatch"
               /\ \E i \in TypeIdx("jsonNetlist"),
                     j \in TypeIdx("fpgaInterchangeNetlist") :
                      {files[i].name, files[j].name} \subseteq Range(error.names)

\* the fasm2bels sub-flow is enabled and one of its inputs is absent
Fasm2belsEnabledInputAbsent ==
    flow = "Symbiflow" /\ fasm2bels = TRUE
    /\ Fasm2belsInputMissing(slots, dbroot)

(* C9: in both Symbiflow flows, with fasm2bels enabled and the dbroot option
   or the RRGraph or VPRGrid file absent, configuration fails and no
   fasm2bels or timing stage is registered; with fasm2bels disabled a
   configuration that completes registers neither of the two stages. *)
C9_Fasm2belsInputsEnforced ==
    /\ Fasm2belsEnabledInputAbsent =>
           /\ pc # "done" /\ ~written
           /\ ~HasStageFor(toplevel \o ".bit.v")
           /\ ~HasStageFor("timing_summary.rpt")
    /\ (flow = "Symbiflow" /\ fasm2bels = FALSE) =>
           /\ ~HasStageFor(toplevel \o ".bit.v")
           /\ ~HasStageFor("timing_summary.rpt")

\* the input of a Nextpnr configuration is the least the architecture needs:
\* a known architecture, its required option, one netlist of the format it
\* accepts and, for fpga_interchange, an XDC file
MinimalValidNextpnr ==
    /\ flow = "Nextpnr" /\ arch \in NextpnrArchs \ {"unknown"}
    /\ arch = "fpga_interchange" =>
           /\ Truthy(chipdb) /\ TypeIdx("XDC") # {}
           /\ Cardinality(TypeIdx("fpgaInterchangeNetlist")) = 1
    /\ arch # "fpga_interchange" => Cardinality(TypeIdx("jsonNetlist")) = 1

\* a configuration with a minimal valid option set has been completed: the
\* Makefile is written, nothing was reported as an error and the optional
\* fasm2bels sub-flow is off
MinimalValidConfiguration ==
    /\ written /\ error = NoError /\ log = <<>> /\ fasm2bels = FALSE
    /\ flow = "Nextpnr" => MinimalValidNextpnr

LastStage == commands[Len(commands)]

(* C10, as claimed: for each variant configured with a minimal valid option
   set, the output of the last stage of the stage list equals the default
   target. *)
C10_LastStageOutputIsDefaultTarget ==
    MinimalValidConfiguration => LastStage.targets = <<default_target>>

(* C10, amended: for a minimal valid option set, the output of the last
   stage equals the default target in Symbiflow's nextpnr flow and in its
   vpr flow with vendor xilinx.  Nextpnr.configure_main registers two
   stages; the default target is the output of the first, the primary
   stage, and the last stage is the GUI stage build-gui.  Symbiflow's vpr
   flow with vendor quicklogic ends with the stages .bin, .h, .openocd.cfg
   and .jlink; the default target is the first three outputs joined by
   spaces and the last stage produces .jlink. *)
C10_DefaultTargetPerVariant ==
    MinimalValidConfiguration =>
        IF flow = "Nextpnr"
        THEN /\ Len(commands) = 2
             /\ commands[1].targets = <<default_target>>
             /\ LastStage.targets = <<"build-gui">>
             /\ default_target # "build-gui"
        ELSE IF pnr \in {"vtr", "vpr"} /\ vendor = "quicklogic"
        THEN LET n == Len(commands)
             IN  /\ n >= 4
                 /\ default_target =
                        JoinSpace(commands[n - 3].targets
                                  \o commands[n - 2].targets
                                  \o commands[n - 1].targets)
                 /\ LastStage.targets = <<toplevel \o ".jlink">>
        ELSE LastStage.targets = <<default_target>>

\* a minimal valid fpga_interchange configuration of Symbiflow's nextpnr flow
\* has been written
C10_Witness ==
    /\ MinimalValidConfiguration
    /\ flow = "Symbiflow" /\ pnr = "nextpnr" /\ arch = "fpga_interchange"
    /\ LastStage.targets = <<name \o ".bit">>

\* the output paths declared by the registered stages
StageOutputs == UNION {Range(commands[i].targets) : i \in 1..Len(commands)}

\* the words of s, as the Makefile reads a list of targets: s.split(" ")
\* without the empty words
Words(s) ==
    LET n == Len(s)
        spaces == {i \in 1..n : SubSeq(s, i, i) = " "}
    IN  {SubSeq(s, a, b) : <<a, b>> \in
            {p \in (1..n) \X (1..n) :
                /\ p[1] <= p[2]
                /\ (p[1] - 1) \in spaces \cup {0}
                /\ (p[2] + 1) \in spaces \cup {n + 1}
                /\ \A i \in p[1]..p[2] : i \notin spaces}}

\* the configure call has written the Makefile and neither raised nor
\* reported an error
Succeeded == written /\ error = NoError /\ log = <<>>

QuicklogicVpr == flow = "Symbiflow" /\ pnr \in {"vtr", "vpr"} /\ vendor = "quicklogic"

(* C11, as claimed: after any successful configuration the recorded default
   target equals an output path of some registered stage. *)
C11_DefaultTargetIsAStageOutput ==
    Succeeded => default_target \in StageOutputs

(* C11, amended: after any successful configuration the recorded default
   target equals an output path of some registered stage, except in
   Symbiflow's vpr flow with vendor quicklogic: there the default target is
   the list toplevel.bin toplevel.h toplevel.openocd.cfg, which is no
   stage's output path itself, and each of its three names is an output
   path of a registered stage. *)
C11_DefaultTargetNamesStageOutputs ==
    Succeeded =>
        IF QuicklogicVpr
        THEN /\ default_target \notin StageOutputs
             /\ Words(default_target) =
                    {toplevel \o ".bin", toplevel \o ".h", toplevel \o ".openocd.cfg"}
             /\ Words(default_target) \subseteq StageOutputs
        ELSE default_target \in StageOutputs

\* a quicklogic configuration with the fasm2bels sub-flow has been written
C11_Witness ==
    /\ Succeeded /\ QuicklogicVpr /\ fasm2bels = TRUE
    /\ Cardinality(Words(default_target)) = 3
    /\ "timing_summary.rpt" \in StageOutputs

\* the input files are one constraint file and one netlist file
OneConstraintOneNetlist ==
    /\ Len(files) = 2
    /\ Cardinality({i \in 1..Len(files) : files[i].file_type \in NetlistTypes}) = 1
    /\ Cardinality({i \in 1..Len(files) :
                       files[i].file_type \in NextpnrConstraintTypes}) = 1

\* the name of the netlist file among the input files
NetlistFileName ==
    files[CHOOSE i \in 1..Len(files) : files[i].file_type \in NetlistTypes].name

\* the fixed extension of the primary output of each Nextpnr variant
NextpnrExtension(a) ==
    CASE a = "ecp5" -> ".config"
      [] a = "mistral" -> ".rbf"
      [] a = "nexus" -> ".fasm"
      [] a = "gowin" -> ".pack"
      [] a = "fpga_interchange" -> ".phys"
      [] OTHER -> ".asc"

\* Nextpnr.configure_main has succeeded on one constraint file and one
\* netlist file of the format the architecture accepts
ScenarioA ==
    /\ flow = "Nextpnr" /\ Succeeded
    /\ MinimalValidNextpnr /\ OneConstraintOneNetlist

(* C12: given one constraint file and one netlist file,
   Nextpnr.configure_main registers exactly two stages, the primary stage
   first, with the single output name + extension, then the GUI stage with
   the single output build-gui; both have the netlist file as their single
   dependency, the GUI command is the primary command followed by --gui,
   and the default target is the primary output, never build-gui. *)
C12_PrimaryAndGuiStage ==
    ScenarioA =>
        /\ Len(commands) = 2
        /\ commands[1].targets = <<name \o NextpnrExtension(arch)>>
        /\ commands[2].targets = <<"build-gui">>
        /\ commands[1].depends = <<NetlistFileName>>
        /\ commands[2].depends = <<NetlistFileName>>
        /\ commands[2].command = Append(commands[1].command, "--gui")
        /\ default_target = name \o NextpnrExtension(arch)
        /\ default_target # "build-gui"

\* the names of the supplied input files
SuppliedFileNames == {files[i].name : i \in 1..Len(files)}

\* the argument that follows flag in a command line
ArgAfter(command, flag) ==
    command[(CHOOSE i \in 1..Len(command) : command[i] = flag) + 1]

\* exactly one netlist file is supplied and it has the format the
\* architecture accepts
OneAcceptedNetlist ==
    /\ Cardinality({i \in 1..Len(files) : files[i].file_type \in NetlistTypes}) = 1
    /\ IF arch = "fpga_interchange"
       THEN TypeIdx("fpgaInterchangeNetlist") # {}
       ELSE TypeIdx("jsonNetlist") # {}

(* C14: in every graph built by Nextpnr.configure_main every recorded input
   of every stage is the name of a supplied input file or an output of a
   stage registered earlier; and for every architecture, fpga_interchange
   included, when exactly one netlist file of the accepted format is
   supplied, the dependency of the primary and of the GUI stage and the
   --json / --netlist argument of their commands is that file's name. *)
C14_StageInputsAreSuppliedOrProduced ==
    flow = "Nextpnr" =>
        /\ \A i \in 1..Len(commands) : \A d \in Range(commands[i].depends) :
               \/ d \in SuppliedFileNames
               \/ \E j \in 1..(i - 1) : d \in Range(commands[j].targets)
        /\ (commands # <<>> /\ OneAcceptedNetlist) =>
               \A i \in 1..Len(commands) :
                   /\ commands[i].depends = <<NetlistFileName>>
                   /\ ArgAfter(commands[i].command,
                               IF arch = "fpga_interchange" THEN "--netlist"
                               ELSE "--json") = NetlistFileName

\* the artifacts the command of stage i reads that a stage of the graph
\* produces: the words of its command line that are declared outputs, its
\* own outputs excepted
StageReads(i) ==
    (Range(commands[i].command) \cap StageOutputs) \ Range(commands[i].targets)

\* the stages that declare one of paths as output
Producers(paths) ==
    {j \in 1..Len(commands) : Range(commands[j].targets) \cap paths # {}}

\* S and the stages reachable from S through at most k recorded inputs
RECURSIVE ReachableStages(_, _)
ReachableStages(S, k) ==
    IF k = 0 THEN S
    ELSE ReachableStages(
             S \cup Producers(UNION {Range(commands[j].depends) : j \in S}),
             k - 1)

\* the stages an executor has run before it starts stage i
UpstreamStages(i) ==
    ReachableStages(Producers(Range(commands[i].depends)), Len(commands))

(* C13: in every graph of the Symbiflow flows the recorded dependency edges
   are complete: every artifact that a stage's command reads and that a
   stage of the graph produces is an output of a stage reachable, directly
   or transitively, through the reading stage's recorded inputs; so an
   executor that starts a stage once its recorded inputs exist never runs
   it before the producers of what it reads. *)
C13_RecordedEdgesComplete ==
    (flow = "Symbiflow" /\ error = NoError /\ log = <<>>) =>
        \A i \in 1..Len(commands) :
            StageReads(i) \subseteq
                UNION {Range(commands[j].targets) : j \in UpstreamStages(i)}

\* the vpr flow of Symbiflow
VprFlow == flow = "Symbiflow" /\ pnr \in {"vtr", "vpr"}

\* the extensions of the main chain, in order
VprChainExtensions == <<".eblif", ".net", ".place", ".route", ".fasm", ".bit">>

\* the outputs of the fasm2bels sub-flow and of the quicklogic
\* post-processing stages
VprPostOutputs ==
    {toplevel \o ".bit.v", "timing_summary.rpt", toplevel \o ".bin",
     toplevel \o ".h", toplevel \o ".openocd.cfg", toplevel \o ".jlink"}

(* C15: Symbiflow.configure_vpr registers its main chain in the order
   synthesis (.eblif), pack (.net), place (.place), route (.route),
   write_fasm (.fasm), write_bitstream (.bit); the synthesis stage has no
   recorded input, every later main-chain stage has exactly one recorded
   input, the single output of the stage registered immediately before it;
   the fasm2bels stages and the quicklogic post-processing stages are
   registered only after the bitstream stage. *)
C15_VprChainOrder ==
    (VprFlow /\ commands # <<>>) =>
        /\ Len(commands) >= Len(VprChainExtensions)
        /\ \A k \in 1..Len(VprChainExtensions) :
               commands[k].targets = <<toplevel \o VprChainExtensions[k]>>
        /\ commands[1].depends = <<>>
        /\ \A k \in 2..Len(VprChainExtensions) :
               /\ Len(commands[k - 1].targets) = 1
               /\ commands[k].depends = <<commands[k - 1].targets[1]>>
        /\ \A i \in 1..Len(commands) :
               Range(commands[i].targets) \cap VprPostOutputs # {}
                   <=> i > Len(VprChainExtensions)

\* a quicklogic configuration of the vpr flow has been written with the two
\* fasm2bels stages and the four post-processing stages after the main chain
C15_Witness ==
    /\ VprFlow /\ written /\ error = NoError
    /\ Len(commands) = Len(VprChainExtensions) + 6
    /\ commands[7].targets = <<toplevel \o ".bit.v">>
    /\ commands[12].targets = <<toplevel \o ".jlink">>

(* C16: in every graph produced by Nextpnr.configure_main,
   Symbiflow.configure_vpr and Symbiflow.configure_nextpnr, for every
   variant, with or without fasm2bels, with the design name equal to or
   different from the toplevel, no two stages registered by the operation
   declare the same output path. *)
C16_OutputPathsUnique ==
    \A i, j \in 1..Len(OwnStages) :
        i # j => Range(OwnStages[i].targets) \cap Range(OwnStages[j].targets) = {}

\* an fpga_interchange graph of Symbiflow's nextpnr flow with the fasm2bels
\* stages has been written for a design whose name differs from its toplevel
C16_Witness ==
    /\ written /\ flow = "Symbiflow" /\ pnr = "nextpnr"
    /\ arch = "fpga_interchange" /\ toplevel # name /\ fasm2bels = TRUE
    /\ Len(OwnStages) >= 7

\* the arguments the registered commands pass as --schema_dir
SchemaDirArguments ==
    UNION {{commands[i].command[k + 1] :
               k \in {n \in 1..(Len(commands[i].command) - 1) :
                         commands[i].command[n] = "--schema_dir"}} :
           i \in 1..Len(commands)}

\* Symbiflow.configure_nextpnr has registered the stages of arch
\* fpga_interchange
InterchangeStagesRegistered ==
    /\ flow = "Symbiflow" /\ pnr = "nextpnr" /\ arch = "fpga_interchange"
    /\ OwnStages # <<>>

(* C17: in Symbiflow.configure_nextpnr with arch fpga_interchange the
   INTERCHANGE_SCHEMA_PATH guard is in the header if and only if the
   schema_dir option is absent, which is exactly when the registered
   commands reference $(INTERCHANGE_SCHEMA_PATH) instead of the supplied
   schema_dir; the RAPIDWRIGHT_PATH guard is in the header of every
   fpga_interchange configuration whose stages are registered; for any
   other arch no guard is added to the header. *)
C17_HeaderGuardsMatchCommands ==
    (flow = "Symbiflow" /\ pnr = "nextpnr") =>
        /\ InterchangeStagesRegistered =>
               /\ "ifndef RAPIDWRIGHT_PATH" \in Range(cmd_header)
               /\ "ifndef INTERCHANGE_SCHEMA_PATH" \in Range(cmd_header)
                      <=> schema_dir = None
               /\ schema_dir = None
                      <=> "$(INTERCHANGE_SCHEMA_PATH)" \in SchemaDirArguments
               /\ SchemaDirArguments =
                      {IF schema_dir = None THEN "$(INTERCHANGE_SCHEMA_PATH)"
                       ELSE schema_dir}
        /\ arch # "fpga_interchange" => cmd_header = <<>>

\* an fpga_interchange configuration with schema_dir given has been written:
\* its commands pass the directory and its header holds one guard
C17_Witness ==
    /\ InterchangeStagesRegistered /\ written
    /\ schema_dir = "/schema" /\ SchemaDirArguments = {"/schema"}
    /\ cmd_header = <<"ifndef RAPIDWRIGHT_PATH">>

====
